---------------------------- MODULE Spec2Model ----------------------------
(***************************************************************************)
(* Model of the transaction-status crate (transaction-status/src/lib.rs):  *)
(* the EncodedTransaction codec, the status-metadata projection and the    *)
(* commitment check.  Every operation of the crate is a pure function; an  *)
(* action applies one of them to inputs drawn by Init and stores the       *)
(* result.                                                                 *)
(*                                                                         *)
(* Representation:                                                         *)
(*   Vec<u8>            a sequence of numbers in 0..255                    *)
(*   String             a sequence of one-character strings                *)
(*   Option<T>          None = << >>, Some(v) = << v >>                    *)
(*   enum variants      a tuple whose first element is the variant name    *)
(***************************************************************************)
EXTENDS Integers, Sequences, FiniteSets, TLC

VARIABLES
  pc,            \* which operation has run
  tx,            \* the Transaction under test
  encoding,      \* Option<UiTransactionEncoding> handed to encode
  client,        \* how a client-supplied blob was formed (<< >> when encoded here)
  encoded,       \* the EncodedTransaction
  decoded,       \* result of EncodedTransaction::decode
  meta,          \* Option<TransactionStatusMeta> travelling with tx
  encoded_meta,  \* result of TransactionWithStatusMeta::encode
  status,        \* a TransactionStatus
  commitment,    \* the CommitmentConfig asked for
  satisfied      \* result of satisfies_commitment

vars == << pc, tx, encoding, client, encoded, decoded, meta, encoded_meta,
           status, commitment, satisfied >>

(***************************************************************************)
(* Bounds of the model.                                                    *)
(***************************************************************************)
\* bytes in a Signature (64 in the SDK)
SigBytes == 2
\* bytes in a Pubkey (32 in the SDK)
KeyBytes == 2
\* bytes in a Hash (32 in the SDK)
HashBytes == 2
\* most signatures in a transaction
MaxSigs == 2
\* most account keys in a message
MaxKeys == 3
\* most instructions in a message, and in one InnerInstructions entry
MaxIxs == 2

None == << >>
Some(v) == << v >>

RECURSIVE Concat(_)
\* the concatenation of a sequence of sequences
Concat(ss) ==
  IF ss = << >> THEN << >> ELSE Head(ss) \o Concat(Tail(ss))

Reverse(s) ==
  [i \in 1..Len(s) |-> s[Len(s) + 1 - i]]

RECURSIVE LeadingCount(_, _)
\* how many elements equal to v the sequence s starts with
LeadingCount(s, v) ==
  IF s = << >> \/ Head(s) # v THEN 0 ELSE 1 + LeadingCount(Tail(s), v)

Repeat(v, n) ==
  [i \in 1..n |-> v]

(***************************************************************************)
(* bs58: the digit-array algorithm of bs58::encode / bs58::decode, with    *)
(* the Bitcoin alphabet.                                                   *)
(***************************************************************************)
B58Alphabet ==
  <<
     "1", "2", "3", "4", "5", "6", "7", "8", "9", "A", "B", "C", "D", "E", "F", "G",
     "H", "J", "K", "L", "M", "N", "P", "Q", "R", "S", "T", "U", "V", "W", "X", "Y",
     "Z", "a", "b", "c", "d", "e", "f", "g", "h", "i", "j", "k", "m", "n", "o", "p",
     "q", "r", "s", "t", "u", "v", "w", "x", "y", "z" >>

\* the decode table: the digit of a character, 255 for a character outside
B58Value(c) ==
  IF \E i \in 1..58 : B58Alphabet[i] = c
    THEN (CHOOSE i \in 1..58 : B58Alphabet[i] = c) - 1
    ELSE 255

RECURSIVE B58EncodeCarry(_, _)
\* one input byte folded into the little-endian base-58 digits
B58EncodeCarry(digits, carry) ==
  IF digits = << >>
    THEN IF carry = 0 THEN << >>
         ELSE << carry % 58 >> \o B58EncodeCarry(<< >>, carry \div 58)
    ELSE LET c == carry + Head(digits) * 256
         IN  << c % 58 >> \o B58EncodeCarry(Tail(digits), c \div 58)

RECURSIVE B58EncodeDigits(_, _)
B58EncodeDigits(bytes, digits) ==
  IF bytes = << >> THEN digits
  ELSE B58EncodeDigits(Tail(bytes), B58EncodeCarry(digits, Head(bytes)))

\* bs58::encode(bytes).into_string()
bs58_encode(bytes) ==
  LET digits == B58EncodeDigits(bytes, << >>)
      all    == digits \o Repeat(0, LeadingCount(bytes, 0))
  IN  Reverse([i \in 1..Len(all) |-> B58Alphabet[all[i] + 1]])

RECURSIVE B58DecodeCarry(_, _)
\* one input digit folded into the little-endian bytes
B58DecodeCarry(bytes, val) ==
  IF bytes = << >>
    THEN IF val = 0 THEN << >>
         ELSE << val % 256 >> \o B58DecodeCarry(<< >>, val \div 256)
    ELSE LET v == val + Head(bytes) * 58
         IN  << v % 256 >> \o B58DecodeCarry(Tail(bytes), v \div 256)

RECURSIVE B58DecodeBytes(_, _)
B58DecodeBytes(str, bytes) ==
  IF str = << >> THEN bytes
  ELSE B58DecodeBytes(Tail(str), B58DecodeCarry(bytes, B58Value(Head(str))))

\* bs58::decode(str).into_vec().ok()
bs58_decode(str) ==
  IF \E i \in 1..Len(str) : B58Value(str[i]) = 255 THEN None
  ELSE Some(Reverse(B58DecodeBytes(str, << >>)
                    \o Repeat(0, LeadingCount(str, B58Alphabet[1]))))

(***************************************************************************)
(* base64: the standard alphabet with padding.                             *)
(***************************************************************************)
B64Alphabet ==
  <<
     "A", "B", "C", "D", "E", "F", "G", "H", "I", "J", "K", "L", "M", "N", "O", "P",
     "Q", "R", "S", "T", "U", "V", "W", "X", "Y", "Z", "a", "b", "c", "d", "e", "f",
     "g", "h", "i", "j", "k", "l", "m", "n", "o", "p", "q", "r", "s", "t", "u", "v",
     "w", "x", "y", "z", "0", "1", "2", "3", "4", "5", "6", "7", "8", "9", "+", "/" >>

B64Value(c) ==
  IF \E i \in 1..64 : B64Alphabet[i] = c
    THEN (CHOOSE i \in 1..64 : B64Alphabet[i] = c) - 1
    ELSE 255

RECURSIVE base64_encode(_)
\* base64::encode(bytes)
base64_encode(bytes) ==
  LET ch(n) == B64Alphabet[n + 1]
  IN  CASE Len(bytes) = 0 -> << >>
        [] Len(bytes) = 1 ->
             << ch(bytes[1] \div 4), ch((bytes[1] % 4) * 16), "=", "=" >>
        [] Len(bytes) = 2 ->
             << ch(bytes[1] \div 4),
                ch((bytes[1] % 4) * 16 + bytes[2] \div 16),
                ch((bytes[2] % 16) * 4), "=" >>
        [] OTHER ->
             << ch(bytes[1] \div 4),
                ch((bytes[1] % 4) * 16 + bytes[2] \div 16),
                ch((bytes[2] % 16) * 4 + bytes[3] \div 64),
                ch(bytes[3] % 64) >>
             \o base64_encode(SubSeq(bytes, 4, Len(bytes)))

RECURSIVE B64DecodeQuads(_)
\* the bytes of whole groups of four digits
B64DecodeQuads(vals) ==
  IF Len(vals) < 4 THEN << >>
  ELSE << vals[1] * 4 + vals[2] \div 16,
          (vals[2] % 16) * 16 + vals[3] \div 4,
          (vals[3] % 4) * 64 + vals[4] >>
       \o B64DecodeQuads(SubSeq(vals, 5, Len(vals)))

\* base64::decode(str).ok(): the padded form; a character outside the
\* alphabet, a wrong length, misplaced padding or non-zero trailing bits fail
base64_decode(str) ==
  LET n    == Len(str)
      pad  == IF n >= 2 /\ str[n] = "=" /\ str[n - 1] = "=" THEN 2
              ELSE IF n >= 1 /\ str[n] = "=" THEN 1 ELSE 0
      body == SubSeq(str, 1, n - pad)
      vals == [i \in 1..Len(body) |-> B64Value(body[i])]
      m    == Len(vals)
      full == B64DecodeQuads(SubSeq(vals, 1, m - (m % 4)))
  IN  IF n % 4 # 0 \/ (\E i \in 1..m : vals[i] = 255) THEN None
      ELSE CASE pad = 0 -> Some(full)
             [] pad = 1 ->
                  IF vals[m] % 4 # 0 THEN None
                  ELSE Some(full \o << vals[m - 2] * 4 + vals[m - 1] \div 16,
                                       (vals[m - 1] % 16) * 16 + vals[m] \div 4 >>)
             [] pad = 2 ->
                  IF vals[m] % 16 # 0 THEN None
                  ELSE Some(full \o << vals[m - 1] * 4 + vals[m] \div 16 >>)

(***************************************************************************)
(* bincode of a Transaction: the SDK's wire layout.  A vector is written   *)
(* as its compact-u16 length followed by its elements; signatures, keys    *)
(* and hashes are fixed-size byte arrays.                                  *)
(***************************************************************************)
RECURSIVE ShortU16(_)
\* the compact-u16 form: seven bits a byte, the high bit says "more"
ShortU16(n) ==
  IF n \div 128 = 0 THEN << n % 128 >>
  ELSE << (n % 128) + 128 >> \o ShortU16(n \div 128)

SerializeInstruction(ix) ==
  << ix.program_id_index >>
  \o ShortU16(Len(ix.accounts)) \o ix.accounts
  \o ShortU16(Len(ix.data)) \o ix.data

SerializeMessage(m) ==
  << m.header.num_required_signatures,
     m.header.num_readonly_signed_accounts,
     m.header.num_readonly_unsigned_accounts >>
  \o ShortU16(Len(m.account_keys)) \o Concat(m.account_keys)
  \o m.recent_blockhash
  \o ShortU16(Len(m.instructions))
  \o Concat([i \in 1..Len(m.instructions) |->
               SerializeInstruction(m.instructions[i])])

\* bincode::serialize(&transaction).unwrap()
bincode_serialize(t) ==
  ShortU16(Len(t.signatures)) \o Concat(t.signatures)
  \o SerializeMessage(t.message)

\* A reader state is [ok, out, rest]: whether reading has succeeded so far,
\* the values read (in order) and the bytes left.  Each reader takes the state
\* of the one before it, and a failure is passed on.
Fail == [ok |-> FALSE, out |-> << >>, rest |-> << >>]
Start(bytes) == [ok |-> TRUE, out |-> << >>, rest |-> bytes]

Last(r) == r.out[Len(r.out)]

\* n bytes
TakeBytes(r, n) ==
  IF ~r.ok \/ Len(r.rest) < n THEN Fail
  ELSE [ok |-> TRUE,
        out |-> Append(r.out, SubSeq(r.rest, 1, n)),
        rest |-> SubSeq(r.rest, n + 1, Len(r.rest))]

RECURSIVE ShortU16From(_, _, _)
\* the compact-u16 at the head of bytes as << value, bytes used >>, or << >>:
\* at most three bytes, the value cut to 16 bits
ShortU16From(bytes, size, len) ==
  IF bytes = << >> \/ size >= 3 THEN << >>
  ELSE IF Head(bytes) < 128
         THEN << (len + Head(bytes) * (128 ^ size)) % 65536, size + 1 >>
         ELSE ShortU16From(Tail(bytes), size + 1,
                           len + (Head(bytes) % 128) * (128 ^ size))

\* a vector's length
TakeShortU16(r) ==
  IF ~r.ok \/ ShortU16From(r.rest, 0, 0) = << >> THEN Fail
  ELSE [ok |-> TRUE,
        out |-> Append(r.out, ShortU16From(r.rest, 0, 0)[1]),
        rest |-> SubSeq(r.rest, ShortU16From(r.rest, 0, 0)[2] + 1, Len(r.rest))]

\* the arrays of size bytes each counted by the length just read; the length
\* is replaced by the arrays
TakeArrays(r, size) ==
  IF ~r.ok \/ Len(r.rest) < Last(r) * size THEN Fail
  ELSE [ok |-> TRUE,
        out |-> [r.out EXCEPT ![Len(r.out)] =
                   [i \in 1..Last(r) |->
                      SubSeq(r.rest, (i - 1) * size + 1, i * size)]],
        rest |-> SubSeq(r.rest, Last(r) * size + 1, Len(r.rest))]

\* the bytes counted by the length just read
TakeCounted(r) ==
  IF ~r.ok \/ Len(r.rest) < Last(r) THEN Fail
  ELSE [ok |-> TRUE,
        out |-> [r.out EXCEPT ![Len(r.out)] = SubSeq(r.rest, 1, Last(r))],
        rest |-> SubSeq(r.rest, Last(r) + 1, Len(r.rest))]

\* the last three values read, as a CompiledInstruction
FoldInstruction(r) ==
  IF ~r.ok THEN Fail
  ELSE [ok |-> TRUE,
        out |-> Append(SubSeq(r.out, 1, Len(r.out) - 3),
                       [program_id_index |-> r.out[Len(r.out) - 2][1],
                        accounts |-> r.out[Len(r.out) - 1],
                        data |-> r.out[Len(r.out)]]),
        rest |-> r.rest]

TakeInstruction(r) ==
  FoldInstruction(TakeCounted(TakeShortU16(TakeCounted(TakeShortU16(TakeBytes(r, 1))))))

RECURSIVE TakeInstructionsN(_, _)
TakeInstructionsN(r, n) ==
  IF n = 0 \/ ~r.ok THEN r
  ELSE TakeInstructionsN(TakeInstruction(r), n - 1)

\* the last n values read, as one vector in place of the length before them
FoldVector(r, n) ==
  IF ~r.ok THEN Fail
  ELSE [ok |-> TRUE,
        out |-> Append(SubSeq(r.out, 1, Len(r.out) - n - 1),
                       SubSeq(r.out, Len(r.out) - n + 1, Len(r.out))),
        rest |-> r.rest]

\* the instructions counted by the length just read
TakeInstructions(r) ==
  IF ~r.ok THEN Fail
  ELSE FoldVector(TakeInstructionsN(r, Last(r)), Last(r))

\* signatures, header, account keys, recent blockhash, instructions
TakeTransaction(r) ==
  TakeInstructions(TakeShortU16(
    TakeBytes(
      TakeArrays(TakeShortU16(
        TakeBytes(
          TakeArrays(TakeShortU16(r), SigBytes),
          3)),
        KeyBytes),
      HashBytes)))

\* the Transaction read, as an Option
ReadTransaction(r) ==
  IF ~r.ok THEN None
  ELSE Some([signatures |-> r.out[1],
             message |->
               [header |->
                  [num_required_signatures |-> r.out[2][1],
                   num_readonly_signed_accounts |-> r.out[2][2],
                   num_readonly_unsigned_accounts |-> r.out[2][3]],
                account_keys |-> r.out[3],
                recent_blockhash |-> r.out[4],
                instructions |-> r.out[5]]])

\* bincode::deserialize(&bytes).ok(): bytes after the value are not looked at
bincode_deserialize(bytes) ==
  ReadTransaction(TakeTransaction(Start(bytes)))

(***************************************************************************)
(* The JSON projections of lib.rs.                                         *)
(***************************************************************************)
\* Pubkey, Signature and Hash print as the base-58 of their bytes
to_string(bytes) ==
  bs58_encode(bytes)

\* the program of the instruction parser registry, and the decoder's demands
RegisteredProgram ==
  Repeat(0, KeyBytes)

\* parse_instruction::parse: Ok(ParsedInstruction) as Some, Err as None
parse(program_id, instruction, account_keys) ==
  IF /\ program_id = RegisteredProgram
     /\ Len(instruction.accounts) >= 1
     /\ Len(instruction.data) >= 1
     /\ instruction.data[1] < 4
    THEN Some([program |-> "registered",
               program_id |-> to_string(program_id),
               parsed |-> [type |-> instruction.data[1],
                           info |-> [k \in 1..Len(instruction.accounts) |->
                                       to_string(account_keys[instruction.accounts[k] + 1])]]])
    ELSE None

\* parse_accounts::parse_accounts: signer and writable from the header bands
parse_accounts(message) ==
  LET n == Len(message.account_keys)
      h == message.header
  IN  [i \in 1..n |->
         [pubkey   |-> to_string(message.account_keys[i]),
          signer   |-> (i - 1) < h.num_required_signatures,
          writable |->
            ~ \/ /\ (i - 1) >= h.num_required_signatures - h.num_readonly_signed_accounts
                 /\ (i - 1) < h.num_required_signatures
              \/ (i - 1) >= n - h.num_readonly_unsigned_accounts]]

\* From<&CompiledInstruction> for UiCompiledInstruction
UiCompiledInstruction_from(instruction) ==
  [program_id_index |-> instruction.program_id_index,
   accounts |-> instruction.accounts,
   data |-> bs58_encode(instruction.data)]

\* a wrong projection: every account is resolved as the program's own key
UiPartiallyDecodedInstruction_from_program_key(instruction, account_keys) ==
  [program_id |-> to_string(account_keys[instruction.program_id_index + 1]),
   accounts |-> [k \in 1..Len(instruction.accounts) |->
                   to_string(account_keys[instruction.program_id_index + 1])],
   data |-> bs58_encode(instruction.data)]

\* UiPartiallyDecodedInstruction::from (the indices are in range: a Message
\* holds only valid indices, and indexing past the keys would panic)
UiPartiallyDecodedInstruction_from(instruction, account_keys) ==
  [program_id |-> to_string(account_keys[instruction.program_id_index + 1]),
   accounts |-> [k \in 1..Len(instruction.accounts) |->
                   to_string(account_keys[instruction.accounts[k] + 1])],
   data |-> bs58_encode(instruction.data)]

\* UiInstruction::parse
UiInstruction_parse(instruction, message) ==
  LET program_id == message.account_keys[instruction.program_id_index + 1]
      parsed_instruction == parse(program_id, instruction, message.account_keys)
  IN  IF parsed_instruction # None
        THEN << "Parsed", << "Parsed", parsed_instruction[1] >> >>
        ELSE << "Parsed",
                << "PartiallyDecoded",
                   UiPartiallyDecodedInstruction_from(instruction,
                                                      message.account_keys) >> >>

(***************************************************************************)
(* EncodedTransaction.                                                     *)
(***************************************************************************)
UiTransactionEncoding ==
  {"Binary", "Base64", "Base58", "Json", "JsonParsed"}

LegacyBinary(blob) == << "LegacyBinary", blob >>
Binary(blob, e) == << "Binary", blob, e >>
Json(ui) == << "Json", ui >>

\* the message of the Json and JsonParsed forms
UiMessage_of(transaction, e) ==
  LET m == transaction.message
  IN  IF e = "Json"
        THEN << "Raw",
                [header |-> m.header,
                 account_keys |-> [i \in 1..Len(m.account_keys) |->
                                     to_string(m.account_keys[i])],
                 recent_blockhash |-> to_string(m.recent_blockhash),
                 instructions |-> [i \in 1..Len(m.instructions) |->
                                     UiCompiledInstruction_from(m.instructions[i])]] >>
        ELSE << "Parsed",
                [account_keys |-> parse_accounts(m),
                 recent_blockhash |-> to_string(m.recent_blockhash),
                 instructions |-> [i \in 1..Len(m.instructions) |->
                                     UiInstruction_parse(m.instructions[i], m)]] >>

\* a wrong encoder: the legacy arm writes base-64
EncodedTransaction_encode_legacy_base64(transaction, e) ==
  CASE e = "Binary" -> LegacyBinary(base64_encode(bincode_serialize(transaction)))
    [] e = "Base58" -> Binary(bs58_encode(bincode_serialize(transaction)), e)
    [] e = "Base64" -> Binary(base64_encode(bincode_serialize(transaction)), e)
    [] OTHER ->
         Json([signatures |-> [i \in 1..Len(transaction.signatures) |->
                                 to_string(transaction.signatures[i])],
               message |-> UiMessage_of(transaction, e)])

\* a wrong encoder: the parsed form is sent as a tagged blob
EncodedTransaction_encode_parsed_blob(transaction, e) ==
  CASE e = "Binary" -> LegacyBinary(bs58_encode(bincode_serialize(transaction)))
    [] e = "Base58" -> Binary(bs58_encode(bincode_serialize(transaction)), e)
    [] e = "Base64" -> Binary(base64_encode(bincode_serialize(transaction)), e)
    [] e = "JsonParsed" -> Binary(bs58_encode(bincode_serialize(transaction)), "Base58")
    [] OTHER ->
         Json([signatures |-> [i \in 1..Len(transaction.signatures) |->
                                 to_string(transaction.signatures[i])],
               message |-> UiMessage_of(transaction, e)])

\* EncodedTransaction::encode
EncodedTransaction_encode(transaction, e) ==
  CASE e = "Binary" -> LegacyBinary(bs58_encode(bincode_serialize(transaction)))
    [] e = "Base58" -> Binary(bs58_encode(bincode_serialize(transaction)), e)
    [] e = "Base64" -> Binary(base64_encode(bincode_serialize(transaction)), e)
    [] OTHER ->
         Json([signatures |-> [i \in 1..Len(transaction.signatures) |->
                                 to_string(transaction.signatures[i])],
               message |-> UiMessage_of(transaction, e)])

\* and_then(|bytes| bincode::deserialize(&bytes).ok()) on an Option<Vec<u8>>
and_then_deserialize(bytes) ==
  IF bytes = None THEN None ELSE bincode_deserialize(bytes[1])

\* a wrong decoder: the Base64 arm decodes base-58
EncodedTransaction_decode_base64_as_base58(enc) ==
  CASE enc[1] = "Json" -> None
    [] enc[1] = "LegacyBinary" -> and_then_deserialize(bs58_decode(enc[2]))
    [] OTHER ->
         CASE enc[3] = "Base58" -> and_then_deserialize(bs58_decode(enc[2]))
           [] enc[3] = "Base64" -> and_then_deserialize(bs58_decode(enc[2]))
           [] OTHER -> None

\* a wrong decoder: the format tag is not looked at
EncodedTransaction_decode_any_tag(enc) ==
  CASE enc[1] = "Json" -> None
    [] enc[1] = "LegacyBinary" -> and_then_deserialize(bs58_decode(enc[2]))
    [] OTHER ->
         CASE enc[3] = "Base64" -> and_then_deserialize(base64_decode(enc[2]))
           [] OTHER -> and_then_deserialize(bs58_decode(enc[2]))

\* EncodedTransaction::decode
EncodedTransaction_decode(enc) ==
  CASE enc[1] = "Json" -> None
    [] enc[1] = "LegacyBinary" -> and_then_deserialize(bs58_decode(enc[2]))
    [] OTHER ->
         CASE enc[3] = "Base58" -> and_then_deserialize(bs58_decode(enc[2]))
           [] enc[3] = "Base64" -> and_then_deserialize(base64_decode(enc[2]))
           [] OTHER -> None

(***************************************************************************)
(* The transactions the model draws from.                                  *)
(***************************************************************************)
SignatureOf(v) ==
  [i \in 1..SigBytes |-> (v * (200 + i)) % 256]

\* key 0 is the all-zero key, the registered program
PubkeyOf(k) ==
  [i \in 1..KeyBytes |-> (k * (16 + i)) % 256]

HashOf(v) ==
  [i \in 1..HashBytes |-> (v * (100 + i)) % 256]

\* the first n account keys; the registered program sits second
AccountKeys(n) ==
  [i \in 1..n |-> PubkeyOf(IF i = 2 THEN 0 ELSE i)]

\* the i-th instruction of variant v over n account keys, indices in range
InstructionOf(i, v, n) ==
  [program_id_index |-> (i + v) % n,
   accounts |-> [j \in 1..((i + v) % 3) |-> (j + i) % n],
   data |-> [j \in 1..((i + (2 * v)) % 4) |-> ((j - 1) * 101 + (v - 1) * 2) % 256]]

Instructions(k, v, n) ==
  [i \in 1..k |-> InstructionOf(i, v, n)]

InstructionLists(n) ==
  {<< >>} \cup (IF n = 0 THEN {}
                ELSE {Instructions(k, v, n) : k \in 1..MaxIxs, v \in 1..3})

Transactions ==
  {[signatures |-> [i \in 1..s |-> SignatureOf(i * sv)],
    message |->
      [header |-> [num_required_signatures |-> s,
                   num_readonly_signed_accounts |-> IF s > 1 THEN 1 ELSE 0,
                   num_readonly_unsigned_accounts |-> IF n > s THEN 1 ELSE 0],
       account_keys |-> AccountKeys(n),
       recent_blockhash |-> HashOf(hv),
       instructions |-> ixs]] :
     <<s, sv, n, hv, ixs>> \in
       {q \in (0..MaxSigs) \X (0..1) \X (0..MaxKeys) \X (0..1)
              \X UNION {InstructionLists(n) : n \in 0..MaxKeys} :
          /\ q[1] <= q[3]
          /\ (q[1] = 0 => q[2] = 0)
          /\ q[5] \in InstructionLists(q[3])}}

(***************************************************************************)
(* What a client may send: a blob built from the serialization, cut, or    *)
(* extended, or with a character outside the alphabet, under any tag.      *)
(***************************************************************************)
ClientForms ==
  {"exact", "truncated", "empty", "trailing", "badchar"}

ClientBytes(t, form) ==
  LET bytes == bincode_serialize(t)
  IN  CASE form = "truncated" -> SubSeq(bytes, 1, Len(bytes) - 1)
        [] form = "empty" -> << >>
        [] form = "trailing" -> bytes \o << 0 >>
        [] OTHER -> bytes

ClientBlob(base, form, bytes) ==
  LET text == IF base = "Base58" THEN bs58_encode(bytes) ELSE base64_encode(bytes)
  IN  IF form = "badchar"
        THEN << IF base = "Base58" THEN "0" ELSE "!" >> \o Tail(text)
        ELSE text

ClientWrappers(base, blob) ==
  IF base = "Base58"
    THEN {LegacyBinary(blob)} \cup {Binary(blob, e) : e \in UiTransactionEncoding \ {"Base64"}}
    ELSE {Binary(blob, e) : e \in UiTransactionEncoding \ {"Base58"}}

(***************************************************************************)
(* Inner instructions and status metadata.                                 *)
(***************************************************************************)
\* UiInnerInstructions::parse
UiInnerInstructions_parse(inner_instructions, message) ==
  [index |-> inner_instructions.index,
   instructions |-> [i \in 1..Len(inner_instructions.instructions) |->
                       UiInstruction_parse(inner_instructions.instructions[i], message)]]

\* From<InnerInstructions> for UiInnerInstructions
UiInnerInstructions_from(inner_instructions) ==
  [index |-> inner_instructions.index,
   instructions |-> [i \in 1..Len(inner_instructions.instructions) |->
                       << "Compiled",
                          UiCompiledInstruction_from(inner_instructions.instructions[i]) >>]]

\* Result<()>: Ok(()) and Err(e)
Ok == << "Ok" >>
Err(e) == << "Err", e >>

\* Result::err
err_of(result) ==
  IF result[1] = "Err" THEN Some(result[2]) ELSE None

\* inner_instructions.map(..) of UiTransactionStatusMeta::parse
map_parse(opt, message) ==
  IF opt = None THEN None
  ELSE Some([i \in 1..Len(opt[1]) |-> UiInnerInstructions_parse(opt[1][i], message)])

\* inner_instructions.map(..) of From<TransactionStatusMeta>
map_into(opt) ==
  IF opt = None THEN None
  ELSE Some([i \in 1..Len(opt[1]) |-> UiInnerInstructions_from(opt[1][i])])

\* TransactionStatusMeta::default
TransactionStatusMeta_default ==
  [status |-> Ok,
   fee |-> 0,
   pre_balances |-> << >>,
   post_balances |-> << >>,
   inner_instructions |-> None,
   log_messages |-> None]

\* UiTransactionStatusMeta::parse
UiTransactionStatusMeta_parse(m, message) ==
  [err |-> err_of(m.status),
   status |-> m.status,
   fee |-> m.fee,
   pre_balances |-> m.pre_balances,
   post_balances |-> m.post_balances,
   inner_instructions |-> map_parse(m.inner_instructions, message),
   log_messages |-> m.log_messages]

\* a wrong projection: err is left out
UiTransactionStatusMeta_from_no_err(m) ==
  [err |-> None,
   status |-> m.status,
   fee |-> m.fee,
   pre_balances |-> m.pre_balances,
   post_balances |-> m.post_balances,
   inner_instructions |-> map_into(m.inner_instructions),
   log_messages |-> m.log_messages]

\* a wrong projection: a missing list becomes an empty one
UiTransactionStatusMeta_from_or_default(m) ==
  [err |-> err_of(m.status),
   status |-> m.status,
   fee |-> m.fee,
   pre_balances |-> m.pre_balances,
   post_balances |-> m.post_balances,
   inner_instructions |->
     IF m.inner_instructions = None THEN Some(<< >>)
     ELSE map_into(m.inner_instructions),
   log_messages |-> m.log_messages]

\* a wrong projection: post_balances is filled from pre_balances
UiTransactionStatusMeta_from_pre_twice(m) ==
  [err |-> err_of(m.status),
   status |-> m.status,
   fee |-> m.fee,
   pre_balances |-> m.pre_balances,
   post_balances |-> m.pre_balances,
   inner_instructions |-> map_into(m.inner_instructions),
   log_messages |-> m.log_messages]

\* From<TransactionStatusMeta> for UiTransactionStatusMeta
UiTransactionStatusMeta_from(m) ==
  [err |-> err_of(m.status),
   status |-> m.status,
   fee |-> m.fee,
   pre_balances |-> m.pre_balances,
   post_balances |-> m.post_balances,
   inner_instructions |-> map_into(m.inner_instructions),
   log_messages |-> m.log_messages]

\* a wrong selection: the Json form is parsed too
TransactionStatusMeta_encode_json_parsed(m, e, message) ==
  IF e \in {"Json", "JsonParsed"} THEN UiTransactionStatusMeta_parse(m, message)
  ELSE UiTransactionStatusMeta_from(m)

\* TransactionStatusMeta::encode
TransactionStatusMeta_encode(m, e, message) ==
  IF e = "JsonParsed" THEN UiTransactionStatusMeta_parse(m, message)
  ELSE UiTransactionStatusMeta_from(m)

\* TransactionWithStatusMeta::encode
TransactionWithStatusMeta_encode(self, e) ==
  LET message == self.transaction.message
  IN  [transaction |-> EncodedTransaction_encode(self.transaction, e),
       meta |-> IF self.meta = None THEN None
                ELSE Some(TransactionStatusMeta_encode(self.meta[1], e, message))]

\* the transactions that carry metadata in the model
MetaTransactions ==
  {t \in Transactions :
     /\ Len(t.signatures) <= 1
     /\ Len(t.message.instructions) <= 1
     /\ t.message.recent_blockhash = HashOf(0)}

\* the inner-instruction lists recorded for a transaction with n account keys
InnerInstructionLists(n) ==
  {<< >>, << [index |-> 0, instructions |-> << >>] >>}
  \cup (IF n = 0 THEN {}
        ELSE {[c \in 1..cnt |-> [index |-> c - 1,
                                 instructions |-> Instructions(k, c, n)]] :
                cnt \in 1..2, k \in 1..MaxIxs})

\* the metadata recorded for transaction t: balances parallel to the account
\* keys, and the default value, whose balance lists are empty
Metas(t) ==
  LET n == Len(t.message.account_keys)
  IN  {TransactionStatusMeta_default}
      \cup {[status |-> st,
             fee |-> 5000,
             pre_balances |-> [i \in 1..n |-> 10000 * i],
             post_balances |-> [i \in 1..n |-> IF i = 1 THEN 5000 ELSE 10000 * i],
             inner_instructions |-> inner,
             log_messages |-> logs] :
              st \in {Ok, Err("AccountInUse"), Err("InsufficientFundsForFee")},
              inner \in {None} \cup {Some(l) : l \in InnerInstructionLists(n)},
              logs \in {None, Some(<< >>),
                        Some(<< "Program log: start", "Program log: end" >>)}}

(***************************************************************************)
(* TransactionStatus and the commitment check.                             *)
(***************************************************************************)
\* largest slot of a status in the model
MaxSlot == 1

CommitmentLevels ==
  {"Max", "Recent", "Root", "Single", "SingleGossip"}

CommitmentConfig_default == [commitment |-> "Max"]
CommitmentConfig_recent == [commitment |-> "Recent"]

\* a wrong check: recent asks for a rooted status as well
satisfies_commitment_recent_rooted(self, commitment_config) ==
  (commitment_config = CommitmentConfig_default
     \/ commitment_config = CommitmentConfig_recent)
  /\ self.confirmations = None

\* TransactionStatus::satisfies_commitment
satisfies_commitment(self, commitment_config) ==
  \/ (commitment_config = CommitmentConfig_default /\ self.confirmations = None)
  \/ commitment_config = CommitmentConfig_recent

TransactionStatuses ==
  [slot : 0..MaxSlot,
   confirmations : {None, Some(0), Some(1), Some(10)},
   status : {Ok, Err("AccountInUse"), Err("InsufficientFundsForFee")},
   err : {None, Some("AccountInUse"), Some("InsufficientFundsForFee")}]

(***************************************************************************)
(* The state machines.  A variable an operation does not use holds Idle.   *)
(***************************************************************************)
Idle == "idle"

\* the codec: a transaction is encoded here, or a blob arrives from a client;
\* then it is decoded
InitCodec ==
  /\ pc = "start"
  /\ tx \in Transactions
  /\ encoding = None
  /\ client = None
  /\ encoded = Idle
  /\ decoded = Idle
  /\ meta = Idle
  /\ encoded_meta = Idle
  /\ status = Idle
  /\ commitment = Idle
  /\ satisfied = Idle

Encode(e) ==
  /\ pc = "start"
  /\ encoding' = Some(e)
  /\ encoded' = EncodedTransaction_encode(tx, e)
  /\ pc' = "encoded"
  /\ UNCHANGED << tx, client, decoded, meta, encoded_meta, status, commitment, satisfied >>

Receive(base, form) ==
  /\ pc = "start"
  /\ LET bytes == ClientBytes(tx, form)
     IN  /\ client' = Some([base |-> base, form |-> form, bytes |-> bytes])
         /\ encoded' \in ClientWrappers(base, ClientBlob(base, form, bytes))
  /\ pc' = "received"
  /\ UNCHANGED << tx, encoding, decoded, meta, encoded_meta, status, commitment, satisfied >>

Decode ==
  /\ pc \in {"encoded", "received"}
  /\ decoded' = EncodedTransaction_decode(encoded)
  /\ pc' = "decoded"
  /\ UNCHANGED << tx, encoding, client, encoded, meta, encoded_meta, status, commitment,
                  satisfied >>

NextCodec ==
  \/ \E e \in UiTransactionEncoding : Encode(e)
  \/ \E base \in {"Base58", "Base64"}, form \in ClientForms : Receive(base, form)
  \/ Decode

SpecCodec == InitCodec /\ [][NextCodec]_vars

\* the metadata: a transaction with its status metadata is encoded
InitMeta ==
  /\ pc = "start"
  /\ tx \in MetaTransactions
  /\ meta \in {None} \cup {Some(m) : m \in Metas(tx)}
  /\ encoding = None
  /\ client = None
  /\ encoded = Idle
  /\ decoded = Idle
  /\ encoded_meta = Idle
  /\ status = Idle
  /\ commitment = Idle
  /\ satisfied = Idle

EncodeWithMeta(e) ==
  /\ pc = "start"
  /\ encoding' = Some(e)
  /\ encoded_meta' = TransactionWithStatusMeta_encode([transaction |-> tx, meta |-> meta], e)
  /\ pc' = "transformed"
  /\ UNCHANGED << tx, client, encoded, decoded, meta, status, commitment, satisfied >>

NextMeta ==
  \E e \in UiTransactionEncoding : EncodeWithMeta(e)

SpecMeta == InitMeta /\ [][NextMeta]_vars

\* the commitment check
InitCommitment ==
  /\ pc = "start"
  /\ status \in TransactionStatuses
  /\ commitment = Idle
  /\ satisfied = Idle
  /\ tx = Idle
  /\ encoding = None
  /\ client = None
  /\ encoded = Idle
  /\ decoded = Idle
  /\ meta = Idle
  /\ encoded_meta = Idle

SatisfiesCommitment(c) ==
  /\ pc = "start"
  /\ commitment' = c
  /\ satisfied' = satisfies_commitment(status, c)
  /\ pc' = "checked"
  /\ UNCHANGED << tx, encoding, client, encoded, decoded, meta, encoded_meta, status >>

NextCommitment ==
  \E level \in CommitmentLevels : SatisfiesCommitment([commitment |-> level])

SpecCommitment == InitCommitment /\ [][NextCommitment]_vars

(***************************************************************************)
(* Properties.                                                             *)
(***************************************************************************)
\* the serializations of the model's transactions
Serializations ==
  {bincode_serialize(t) : t \in Transactions}

\* the bytes begin with the complete serialization of a transaction
BeginsWithSerialization(bytes) ==
  \E n \in 0..Len(bytes) : SubSeq(bytes, 1, n) \in Serializations

\* the encoded value is one decode reads bytes from: LegacyBinary, or Binary
\* tagged Base58 or Base64
Decodable(enc) ==
  \/ enc[1] = "LegacyBinary"
  \/ enc[1] = "Binary" /\ enc[3] \in {"Base58", "Base64"}

\* C1: decoding what encode produced for Base58 or Base64 returns Some of
\* the transaction that was encoded.
C1_RoundTrip ==
  (pc = "decoded" /\ encoding \in {Some("Base58"), Some("Base64")})
    => decoded = Some(tx)

\* C1 witness: a Base64 blob of a transaction with no signatures (its
\* serialization starts with a zero byte) and with instructions was decoded.
C1_Witness ==
  /\ pc = "decoded"
  /\ encoding = Some("Base64")
  /\ tx.signatures = << >>
  /\ tx.message.instructions # << >>
  /\ decoded = Some(tx)

\* C2: the legacy Binary encoding is the LegacyBinary variant holding
\* exactly the payload string of the Base58 encoding, which is the Binary
\* variant tagged Base58.
C2_Parity ==
  (pc = "encoded" /\ encoding = Some("Binary"))
    => /\ encoded[1] = "LegacyBinary"
       /\ Len(encoded) = 2
       /\ EncodedTransaction_encode(tx, "Base58")
            = << "Binary", encoded[2], "Base58" >>

\* C2 witness: a transaction with signatures and instructions was encoded
\* in the legacy form.
C2_Witness ==
  /\ pc = "encoded"
  /\ encoding = Some("Binary")
  /\ encoded[1] = "LegacyBinary"
  /\ Len(tx.signatures) = MaxSigs
  /\ tx.message.instructions # << >>

\* C3: Json and JsonParsed both encode to the Json variant, and decoding
\* that returns None.
C3_JsonNotDecoded ==
  (pc \in {"encoded", "decoded"} /\ encoding \in {Some("Json"), Some("JsonParsed")})
    => /\ encoded[1] = "Json"
       /\ pc = "decoded" => decoded = None

\* C3 witness: a JsonParsed encoding was decoded to None.
C3_Witness ==
  /\ pc = "decoded"
  /\ encoding = Some("JsonParsed")
  /\ encoded[1] = "Json"
  /\ tx.message.instructions # << >>
  /\ decoded = None

C9_Fallback ==
  (pc = "encoded" /\ encoding = Some("JsonParsed"))
    => \A i \in 1..Len(tx.message.instructions) :
         LET ix   == tx.message.instructions[i]
             keys == tx.message.account_keys
             ui   == encoded[2].message[2].instructions[i]
         IN  keys[ix.program_id_index + 1] # RegisteredProgram
               => /\ ui[1] = "Parsed"
                  /\ ui[2][1] = "PartiallyDecoded"
                  /\ ui[2][2].program_id = to_string(keys[ix.program_id_index + 1])
                  /\ Len(ui[2][2].accounts) = Len(ix.accounts)
                  /\ \A k \in 1..Len(ix.accounts) :
                       ui[2][2].accounts[k] = to_string(keys[ix.accounts[k] + 1])
                  /\ ui[2][2].data = bs58_encode(ix.data)

\* C9 witness: an instruction of an unregistered program with two accounts,
\* different from the program's key, was projected.
C9_Witness ==
  /\ pc = "encoded"
  /\ encoding = Some("JsonParsed")
  /\ \E i \in 1..Len(tx.message.instructions) :
       LET ix == tx.message.instructions[i]
       IN  /\ tx.message.account_keys[ix.program_id_index + 1] # RegisteredProgram
           /\ Len(ix.accounts) = 2
           /\ ix.accounts[1] # ix.program_id_index
           /\ encoded[2].message[2].instructions[i][2][1] = "PartiallyDecoded"

\* C5: satisfies_commitment is true exactly for the recent commitment, or
\* for the default commitment with no confirmation count.
C5_Commitment ==
  pc = "checked"
    => satisfied = (\/ commitment = CommitmentConfig_recent
                    \/ (commitment = CommitmentConfig_default
                          /\ status.confirmations = None))

\* C5 witness: a status with ten confirmations and an error was checked
\* against recent and satisfied it.
C5_Witness ==
  /\ pc = "checked"
  /\ commitment = CommitmentConfig_recent
  /\ status.confirmations = Some(10)
  /\ status.err # None
  /\ status.slot = MaxSlot
  /\ satisfied = TRUE

\* the metadata before and after the encoding
MetaIn == meta[1]
MetaOut == encoded_meta.meta[1]

\* C6: the transformed metadata has the status of the input and err equal to
\* status.err(): None for Ok, Some(e) for Err(e).
C6_ErrFromStatus ==
  (pc = "transformed" /\ meta # None)
    => /\ encoded_meta.meta # None
       /\ MetaOut.status = MetaIn.status
       /\ (MetaIn.status = Ok) <=> (MetaOut.err = None)
       /\ \A e \in {"AccountInUse", "InsufficientFundsForFee"} :
            (MetaIn.status = Err(e)) <=> (MetaOut.err = Some(e))

\* C6 witness: metadata with an error status was transformed without parsing.
C6_Witness ==
  /\ pc = "transformed"
  /\ meta # None
  /\ encoding = Some("Base64")
  /\ MetaIn.status = Err("AccountInUse")
  /\ MetaOut.err = Some("AccountInUse")

\* C7: inner_instructions and log_messages are absent after the encoding
\* exactly when they were absent before; a present list keeps its number of
\* entries, and log_messages is unchanged.
C7_OptionalFields ==
  (pc = "transformed" /\ meta # None)
    => /\ (MetaOut.inner_instructions = None) <=> (MetaIn.inner_instructions = None)
       /\ MetaIn.inner_instructions # None
            => Len(MetaOut.inner_instructions[1]) = Len(MetaIn.inner_instructions[1])
       /\ MetaOut.log_messages = MetaIn.log_messages

\* C7 witness: metadata with no inner instructions recorded and an empty log
\* list was transformed.
C7_Witness ==
  /\ pc = "transformed"
  /\ meta # None
  /\ MetaIn.inner_instructions = None
  /\ MetaIn.log_messages = Some(<< >>)
  /\ MetaOut.inner_instructions = None
  /\ MetaOut.log_messages = Some(<< >>)

\* C8 as stated: the balance lists of any transformed metadata are as long
\* as the account keys of the transaction's message.
C8_AsStated ==
  (pc = "transformed" /\ meta # None)
    => /\ Len(MetaOut.pre_balances) = Len(tx.message.account_keys)
       /\ Len(MetaOut.post_balances) = Len(tx.message.account_keys)

\* C8 amended: the encoding copies pre_balances and post_balances unchanged,
\* so they are as long as the account keys exactly when those of the input
\* metadata are.
C8_BalancesCopied ==
  (pc = "transformed" /\ meta # None)
    => /\ MetaOut.pre_balances = MetaIn.pre_balances
       /\ MetaOut.post_balances = MetaIn.post_balances
       /\ (Len(MetaOut.pre_balances) = Len(tx.message.account_keys))
            <=> (Len(MetaIn.pre_balances) = Len(tx.message.account_keys))
       /\ (Len(MetaOut.post_balances) = Len(tx.message.account_keys))
            <=> (Len(MetaIn.post_balances) = Len(tx.message.account_keys))

\* C8 witness: metadata whose balance lists differ and are parallel to the
\* account keys was transformed.
C8_Witness ==
  /\ pc = "transformed"
  /\ meta # None
  /\ MetaIn.pre_balances # MetaIn.post_balances
  /\ Len(MetaOut.post_balances) = Len(tx.message.account_keys)
  /\ Len(tx.message.account_keys) = MaxKeys

\* C10: the encoding alone selects the projection of inner instructions:
\* JsonParsed parses each against the outer message's account keys, every
\* other encoding keeps it compiled with the same indices; the entries, their
\* index and the instructions in each keep their number and order.
C10_InnerProjection ==
  (pc = "transformed" /\ meta # None /\ MetaIn.inner_instructions # None)
    => LET ins  == MetaIn.inner_instructions[1]
           outs == MetaOut.inner_instructions[1]
       IN  /\ Len(outs) = Len(ins)
           /\ \A c \in 1..Len(ins) :
                /\ outs[c].index = ins[c].index
                /\ Len(outs[c].instructions) = Len(ins[c].instructions)
                /\ \A i \in 1..Len(ins[c].instructions) :
                     LET ix == ins[c].instructions[i]
                         ui == outs[c].instructions[i]
                     IN  IF encoding = Some("JsonParsed")
                           THEN /\ ui[1] = "Parsed"
                                /\ ui = UiInstruction_parse(ix, tx.message)
                           ELSE /\ ui[1] = "Compiled"
                                /\ ui[2].program_id_index = ix.program_id_index
                                /\ ui[2].accounts = ix.accounts

\* C10 witness: two entries of inner instructions were projected for the
\* Json encoding and stayed compiled.
C10_Witness ==
  /\ pc = "transformed"
  /\ meta # None
  /\ encoding = Some("Json")
  /\ MetaIn.inner_instructions # None
  /\ Len(MetaIn.inner_instructions[1]) = 2
  /\ Len(MetaIn.inner_instructions[1][2].instructions) = MaxIxs
  /\ MetaOut.inner_instructions[1][2].instructions[1][1] = "Compiled"

=============================================================================
